---- MODULE Spec2Model ----
\* minigrep core of rust-study: Config::build, run, search (src/src/lib.rs)
\* and the binary entry point main (src/src/main.rs).
\*
\* A Rust String / &str is modelled as a sequence of one-character strings.
EXTENDS Integers, Sequences, FiniteSets, TLC

VARIABLES pc, argv, args, fs, query, contents, config, result, stdout, stderr,
          ret, exit_code

vars == <<pc, argv, args, fs, query, contents, config, result, stdout, stderr,
          ret, exit_code>>

--------------------------------------------------------------------------
\* Bounds and input alphabets

MaxContentsLen == 4
MaxQueryLen == 2
MaxFileLen == 3
MaxArgs == 4

LF == "\n"
CR == "\r"

\* characters of the generated texts: one letter in both cases and the two
\* characters str::lines treats specially
Alphabet == {"a", "A", LF, CR}

StrsUpTo(n) == UNION {[1..k -> Alphabet] : k \in 0..n}

\* the inputs of the tests the documentation lists
TextRust == <<"r", "u", "s", "t", ":", LF, "s", "a", "f", "e", ",", " ", "f", "a", "s", "t", ",", " ", "p", "r", "o", "d", "u", "c", "t", "i", "v", "e", ".">>
QueryRUST == <<"R", "U", "S", "T">>
TextPoem == <<"R", "u", "s", "t", ":", LF, "s", "a", "f", "e", ",", " ", "f", "a", "s", "t", ",", " ", "p", "r", "o", "d", "u", "c", "t", "i", "v", "e", ".", LF, "P", "i", "c", "k", " ", "t", "h", "r", "e", "e", ".">>
QueryDuct == <<"d", "u", "c", "t">>
LineProductive == <<"s", "a", "f", "e", ",", " ", "f", "a", "s", "t", ",", " ", "p", "r", "o", "d", "u", "c", "t", "i", "v", "e", ".">>
TextLineOne == <<"l", "i", "n", "e", " ", "o", "n", "e", LF, "l", "i", "n", "e", " ", "t", "w", "o", LF, "l", "i", "n", "e", " ", "o", "n", "e", " ", "a", "g", "a", "i", "n">>
QueryLineOne == <<"l", "i", "n", "e", " ", "o", "n", "e">>
LineOneAgain == <<"l", "i", "n", "e", " ", "o", "n", "e", " ", "a", "g", "a", "i", "n">>
TextAB == <<"a", LF, "b">>
TextABTerminated == <<"a", LF, "b", LF>>

Scenarios ==
    { [query |-> QueryRUST, contents |-> TextRust],
      [query |-> QueryDuct, contents |-> TextPoem],
      [query |-> QueryLineOne, contents |-> TextLineOne],
      [query |-> <<>>, contents |-> TextAB],
      [query |-> <<>>, contents |-> TextABTerminated] }

--------------------------------------------------------------------------
\* Result<T, E>

Ok(v) == [ok |-> TRUE, val |-> v]
Err(e) == [ok |-> FALSE, err |-> e]
Unit == "()"
None == [ok |-> FALSE, err |-> "None"]

--------------------------------------------------------------------------
\* search (lib.rs:42-47): contents.lines().filter(|line| line.contains(query)).collect()

\* index of the first '\n' of s at or after position i, 0 when there is none
RECURSIVE find_lf(_, _)
find_lf(s, i) ==
    IF i > Len(s) THEN 0
    ELSE IF s[i] = LF THEN i
    ELSE find_lf(s, i + 1)

\* the empty string yields one empty piece
RECURSIVE split_inclusive_empty(_)
split_inclusive_empty(s) ==
    LET i == find_lf(s, 1) IN
    IF i = 0 THEN <<s>>
    ELSE <<SubSeq(s, 1, i)>> \o split_inclusive_empty(SubSeq(s, i + 1, Len(s)))

\* str::split_inclusive('\n'): the pieces of s, each ending with its '\n'
\* except possibly the last; the empty string has no piece
RECURSIVE split_inclusive(_)
split_inclusive(s) ==
    IF s = <<>> THEN <<>>
    ELSE LET i == find_lf(s, 1) IN
         IF i = 0 THEN <<s>>
         ELSE <<SubSeq(s, 1, i)>> \o split_inclusive(SubSeq(s, i + 1, Len(s)))

\* strip_suffix(c)
strip_suffix(s, c) ==
    IF Len(s) > 0 /\ s[Len(s)] = c THEN Ok(SubSeq(s, 1, Len(s) - 1)) ELSE None

\* the map of str::lines: strip the '\n', then one '\r' before it
strip_line_ending(piece) ==
    LET a == strip_suffix(piece, LF) IN
    IF ~a.ok THEN piece
    ELSE LET b == strip_suffix(a.val, CR) IN
         IF ~b.ok THEN a.val ELSE b.val

\* str::split('\n') instead: keeps an empty line after the last '\n'
RECURSIVE lines_split(_)
lines_split(s) ==
    LET i == find_lf(s, 1) IN
    IF i = 0 THEN <<s>>
    ELSE <<SubSeq(s, 1, i - 1)>> \o lines_split(SubSeq(s, i + 1, Len(s)))

\* str::lines
lines(s) ==
    LET pieces == split_inclusive(s) IN
    [k \in 1..Len(pieces) |-> strip_line_ending(pieces[k])]

\* str::starts_with
starts_with(h, n) ==
    /\ Len(n) <= Len(h)
    /\ SubSeq(h, 1, Len(n)) = n

\* only a match at the start of the line
contains_prefix(h, n) == starts_with(h, n)

\* the empty needle matches nothing
RECURSIVE contains_nonempty(_, _)
contains_nonempty(h, n) ==
    IF n = <<>> \/ Len(n) > Len(h) THEN FALSE
    ELSE IF starts_with(h, n) THEN TRUE
    ELSE contains_nonempty(Tail(h), n)

to_lowercase(s) ==
    [k \in 1..Len(s) |->
        CASE s[k] = "A" -> "a"
          [] s[k] = "R" -> "r"
          [] s[k] = "U" -> "u"
          [] s[k] = "S" -> "s"
          [] s[k] = "T" -> "t"
          [] s[k] = "P" -> "p"
          [] OTHER -> s[k]]

\* a match whatever the letter case
RECURSIVE contains_ignore_case(_, _)
contains_ignore_case(h, n) ==
    IF Len(n) > Len(h) THEN FALSE
    ELSE IF starts_with(to_lowercase(h), to_lowercase(n)) THEN TRUE
    ELSE contains_ignore_case(Tail(h), n)

\* str::contains(&str): the needle occurs at some offset of the haystack
RECURSIVE contains(_, _)
contains(h, n) ==
    IF Len(n) > Len(h) THEN FALSE
    ELSE IF starts_with(h, n) THEN TRUE
    ELSE contains(Tail(h), n)

\* Iterator::filter(|line| line.contains(query)).collect()
RECURSIVE filter_collect(_, _)
filter_collect(ls, q) ==
    IF ls = <<>> THEN <<>>
    ELSE IF contains(Head(ls), q)
         THEN <<Head(ls)>> \o filter_collect(Tail(ls), q)
         ELSE filter_collect(Tail(ls), q)

\* a matching line equal to an earlier one is dropped
RECURSIVE dedup(_)
dedup(ls) ==
    IF ls = <<>> THEN <<>>
    ELSE LET r == dedup(SubSeq(ls, 1, Len(ls) - 1)) IN
         IF \E k \in 1..Len(r) : r[k] = ls[Len(ls)] THEN r
         ELSE r \o <<ls[Len(ls)]>>

search_dedup(q, c) == dedup(filter_collect(lines(c), q))

search(q, c) == filter_collect(lines(c), q)

--------------------------------------------------------------------------
\* Specification of search: the inputs are drawn, search is applied once

Idle ==
    /\ argv = <<>> /\ args = <<>> /\ fs = <<>>
    /\ config = None /\ stdout = <<>> /\ stderr = <<>>
    /\ ret = None /\ exit_code = -1

InitSearch ==
    /\ pc = "search"
    /\ \/ /\ query \in StrsUpTo(MaxQueryLen)
          /\ contents \in StrsUpTo(MaxContentsLen)
       \/ \E s \in Scenarios : query = s.query /\ contents = s.contents
    /\ result = <<>>
    /\ Idle

Search ==
    /\ pc = "search"
    /\ result' = search(query, contents)
    /\ pc' = "search_ret"
    /\ UNCHANGED <<argv, args, fs, query, contents, config, stdout, stderr,
                   ret, exit_code>>

NextSearch == Search

SpecSearch == InitSearch /\ [][NextSearch]_vars

--------------------------------------------------------------------------
\* Properties of search

Range(s) == {s[k] : k \in 1..Len(s)}

\* q occurs in l as a contiguous literal substring
Occurs(q, l) ==
    \E i \in 0..(Len(l) - Len(q)) : \A j \in 1..Len(q) : l[i + j] = q[j]

\* q occurs in l once letter case is disregarded
OccursIgnoringCase(q, l) == Occurs(to_lowercase(q), to_lowercase(l))

\* the lines of a text, by position: a line starts at the first character
\* and after every '\n' that is not the last character; it runs up to the
\* next '\n' (or the end of the text), less one '\r' directly before that '\n'
LineStarts(c) ==
    IF c = <<>> THEN {}
    ELSE {1} \cup {p + 1 : p \in {i \in 1..(Len(c) - 1) : c[i] = LF}}

LineStop(c, b) ==
    CHOOSE e \in b..(Len(c) + 1) :
        /\ e = Len(c) + 1 \/ c[e] = LF
        /\ \A j \in b..(e - 1) : c[j] # LF

LineBody(c, b) ==
    LET e == LineStop(c, b) IN
    IF e <= Len(c) /\ e - 1 >= b /\ c[e - 1] = CR
    THEN SubSeq(c, b, e - 2)
    ELSE SubSeq(c, b, e - 1)

NthOf(S, k) == CHOOSE b \in S : Cardinality({x \in S : x < b}) = k - 1

TextLines(c) ==
    [k \in 1..Cardinality(LineStarts(c)) |-> LineBody(c, NthOf(LineStarts(c), k))]

\* the indices of the lines of c in which q occurs
MatchIdx(q, c) == {k \in 1..Len(TextLines(c)) : Occurs(q, TextLines(c)[k])}

\* C1: search(query, contents) returns exactly the lines of contents that
\* contain query as a contiguous literal substring: every returned line is a
\* line of contents containing query, and every line of contents that is not
\* returned does not contain query; query "duct" on the three-line poem
\* returns ["safe, fast, productive."].
C1_SubstringCorrect ==
    pc = "search_ret" =>
        /\ \A k \in 1..Len(result) :
              /\ result[k] \in Range(TextLines(contents))
              /\ Occurs(query, result[k])
        /\ \A l \in Range(TextLines(contents)) :
              l \notin Range(result) => ~Occurs(query, l)
        /\ (query = QueryDuct /\ contents = TextPoem) => result = <<LineProductive>>

C1_Witness ==
    /\ pc = "search_ret"
    /\ query = QueryDuct /\ contents = TextPoem
    /\ result = <<LineProductive>>

\* C2: the result is a subsequence of the lines L1..Ln of contents in their
\* relative order, with every matching line kept once per occurrence
\* (duplicates are not merged), so its length is at most n; query "line one"
\* on "line one\nline two\nline one again" returns both matching lines.
C2_OrderedSubsequence ==
    pc = "search_ret" =>
        LET L == TextLines(contents)
            M == MatchIdx(query, contents) IN
        /\ Len(result) = Cardinality(M)
        /\ Len(result) <= Len(L)
        /\ \A j \in 1..Len(result) : result[j] = L[NthOf(M, j)]
        /\ (query = QueryLineOne /\ contents = TextLineOne)
              => result = <<QueryLineOne, LineOneAgain>>

C2_Witness ==
    /\ pc = "search_ret"
    /\ query = <<"a">>
    /\ contents = <<"a", LF, "a">>
    /\ result = <<query, query>>

\* C4: with the empty query search returns every line of contents, in the
\* original order, empty lines included.
C4_EmptyQueryAllLines ==
    (pc = "search_ret" /\ query = <<>>) => result = TextLines(contents)

C4_Witness ==
    /\ pc = "search_ret"
    /\ query = <<>>
    /\ contents = <<LF, "a">>
    /\ result = <<<<>>, <<"a">>>>

\* C5: matching is case-sensitive: a line that contains the query only with
\* a different letter case is not returned; search("RUST", "rust:\nsafe,
\* fast, productive.") is empty.
C5_CaseSensitive ==
    pc = "search_ret" =>
        /\ \A l \in Range(TextLines(contents)) :
              (OccursIgnoringCase(query, l) /\ ~Occurs(query, l))
                  => l \notin Range(result)
        /\ (query = QueryRUST /\ contents = TextRust) => result = <<>>

C5_Witness ==
    /\ pc = "search_ret"
    /\ query = QueryRUST /\ contents = TextRust
    /\ OccursIgnoringCase(query, TextLines(contents)[1])
    /\ result = <<>>

\* a finite sequence of strings
IsLineSeq(r) ==
    /\ DOMAIN r = 1..Len(r)
    /\ \A k \in 1..Len(r) : DOMAIN r[k] = 1..Len(r[k])

\* C6: search is total and has no error outcome: it can be applied to every
\* query and contents, what it returns is a (possibly empty) sequence of
\* strings, and on empty contents it returns the empty sequence for every
\* query, the empty query included.
C6_TotalAndEmptyContents ==
    /\ pc = "search" => IsLineSeq(search(query, contents))
    /\ pc = "search_ret" =>
          /\ IsLineSeq(result)
          /\ contents = <<>> => result = <<>>

C6_Witness ==
    /\ pc = "search_ret"
    /\ query = <<>> /\ contents = <<>>
    /\ result = <<>>

\* ls are the lines of c: c is ls[1] t1 ls[2] t2 ... ls[n] with every ti one
\* of "\n" and "\r\n" (the longer one wherever it fits) and an optional
\* terminator after ls[n]
RECURSIVE Rejoins(_, _)
Rejoins(c, ls) ==
    IF ls = <<>> THEN c = <<>>
    ELSE LET l == Head(ls)
             r == SubSeq(c, Len(l) + 1, Len(c)) IN
         /\ Len(l) <= Len(c)
         /\ SubSeq(c, 1, Len(l)) = l
         /\ \A j \in 1..Len(l) : l[j] # LF
         /\ \/ /\ Len(r) >= 1 /\ r[1] = LF
               /\ ~(Len(l) > 0 /\ l[Len(l)] = CR)
               /\ IF Len(r) = 1 THEN Tail(ls) = <<>>
                  ELSE Rejoins(SubSeq(r, 2, Len(r)), Tail(ls))
            \/ /\ Len(r) >= 2 /\ r[1] = CR /\ r[2] = LF
               /\ IF Len(r) = 2 THEN Tail(ls) = <<>>
                  ELSE Rejoins(SubSeq(r, 3, Len(r)), Tail(ls))
            \/ /\ r = <<>> /\ Tail(ls) = <<>> /\ c # <<>>

\* C8: the lines search works on (all of them are returned for the empty
\* query) are the maximal runs of contents without a line terminator: no
\* line holds a terminator, the lines joined by their terminators give back
\* contents, a terminator ending contents adds no empty last line, a last
\* line without terminator is a line; "a\nb\n" and "a\nb" both give
\* ["a", "b"].
C8_LineSplitting ==
    (pc = "search_ret" /\ query = <<>>) =>
        /\ Rejoins(contents, result)
        /\ (contents # <<>> /\ contents[Len(contents)] = LF)
              => Len(result) = Cardinality({i \in 1..Len(contents) : contents[i] = LF})
        /\ (contents # <<>> /\ contents[Len(contents)] # LF)
              => Len(result) = Cardinality({i \in 1..Len(contents) : contents[i] = LF}) + 1
        /\ contents \in {TextAB, TextABTerminated} => result = <<<<"a">>, <<"b">>>>

C8_Witness ==
    /\ pc = "search_ret"
    /\ query = <<>>
    /\ contents = TextABTerminated
    /\ result = <<<<"a">>, <<"b">>>>

--------------------------------------------------------------------------
\* Config::build (lib.rs:11-28)

ErrNoQuery == "Didn't get a query string"
ErrNoFilePath == "Didn't get a file path"

ArgProg == <<"p", "r", "o", "g">>
ArgQ == <<"q">>
ArgFtxt == <<"f", ".", "t", "x", "t">>

\* argument strings: the empty string, a program name, a query, a path
ArgStr == {<<>>, <<"p">>, <<"a">>, <<"f">>}

ArgSeqs ==
    UNION {[1..k -> ArgStr] : k \in 0..MaxArgs}
        \cup {<<ArgProg>>, <<ArgProg, ArgQ>>, <<ArgProg, ArgQ, ArgFtxt>>}

\* Iterator::next on the argument iterator: the item and the iterator after it
next(it) ==
    IF it = <<>> THEN [item |-> None, it |-> it]
    ELSE [item |-> Ok(Head(it)), it |-> Tail(it)]

\* both failures report the missing query
Config_build_same_error(it) ==
    LET n1 == next(it)
        n2 == next(n1.it)
        n3 == next(n2.it) IN
    IF ~n2.item.ok THEN [result |-> Err(ErrNoQuery), it |-> n2.it]
    ELSE IF ~n3.item.ok THEN [result |-> Err(ErrNoQuery), it |-> n3.it]
    ELSE [result |-> Ok([query |-> n2.item.val, file_path |-> n3.item.val]),
          it |-> n3.it]

\* the program name is not skipped
Config_build_no_skip(it) ==
    LET n2 == next(it)
        n3 == next(n2.it) IN
    IF ~n2.item.ok THEN [result |-> Err(ErrNoQuery), it |-> n2.it]
    ELSE IF ~n3.item.ok THEN [result |-> Err(ErrNoFilePath), it |-> n3.it]
    ELSE [result |-> Ok([query |-> n2.item.val, file_path |-> n3.item.val]),
          it |-> n3.it]

\* Config::build: what it returns and the iterator as it leaves it
Config_build(it) ==
    LET n1 == next(it)
        n2 == next(n1.it)
        n3 == next(n2.it) IN
    IF ~n2.item.ok THEN [result |-> Err(ErrNoQuery), it |-> n2.it]
    ELSE IF ~n3.item.ok THEN [result |-> Err(ErrNoFilePath), it |-> n3.it]
    ELSE [result |-> Ok([query |-> n2.item.val, file_path |-> n3.item.val]),
          it |-> n3.it]

InitBuild ==
    /\ pc = "build"
    /\ argv \in ArgSeqs
    /\ args = argv
    /\ fs = <<>> /\ query = <<>> /\ contents = <<>> /\ result = <<>>
    /\ config = None /\ stdout = <<>> /\ stderr = <<>>
    /\ ret = None /\ exit_code = -1

Build ==
    /\ pc = "build"
    /\ LET b == Config_build(args) IN
       /\ ret' = b.result
       /\ args' = b.it
       /\ config' = IF b.result.ok THEN b.result.val ELSE config
    /\ pc' = "build_ret"
    /\ UNCHANGED <<argv, fs, query, contents, result, stdout, stderr, exit_code>>

NextBuild == Build

SpecBuild == InitBuild /\ [][NextBuild]_vars

\* C3: Config::build fails with the missing-query error when the sequence
\* has no second element (also when the third is missing too), fails with
\* the missing-file-path error when it has a second element but no third,
\* and otherwise succeeds with query the second element and file_path the
\* third.
C3_BuildOutcome ==
    pc = "build_ret" =>
        /\ Len(argv) < 2 => ret = Err(ErrNoQuery)
        /\ Len(argv) = 2 => ret = Err(ErrNoFilePath)
        /\ Len(argv) >= 3 =>
              /\ ret = Ok([query |-> argv[2], file_path |-> argv[3]])
              /\ config = [query |-> argv[2], file_path |-> argv[3]]
        /\ argv = <<ArgProg, ArgQ, ArgFtxt>>
              => ret = Ok([query |-> ArgQ, file_path |-> ArgFtxt])

C3_Witness ==
    /\ pc = "build_ret"
    /\ argv = <<ArgProg, ArgQ>>
    /\ ret = Err(ErrNoFilePath)

\* C10: Config::build ignores the first element whatever it is, does not
\* validate the second and third (an empty string is stored as given), takes
\* at most three elements from the sequence and leaves the elements after
\* the third alone, so that its result depends on the second and third
\* elements only.
C10_BuildFrame ==
    pc = "build_ret" =>
        /\ Len(argv) - Len(args) <= 3
        /\ args = SubSeq(argv, Len(argv) - Len(args) + 1, Len(argv))
        /\ Len(argv) >= 3 =>
              /\ Len(argv) - Len(args) = 3
              /\ ret.ok /\ ret.val.query = argv[2] /\ ret.val.file_path = argv[3]
        /\ argv # <<>> =>
              \A x \in ArgStr : Config_build(<<x>> \o Tail(argv)).result = ret
        /\ Len(argv) >= 3 =>
              \A x \in ArgStr : Config_build(Append(argv, x)).result = ret

C10_Witness ==
    /\ pc = "build_ret"
    /\ argv = <<<<"p">>, <<>>, <<"f">>, <<"a">>>>
    /\ ret = Ok([query |-> <<>>, file_path |-> <<"f">>])
    /\ args = <<<<"a">>>>

--------------------------------------------------------------------------
\* run (lib.rs:32-40)

\* the paths at which the file system holds an entry
Paths == {<<"f">>}

\* io::ErrorKind of a failed read of an existing entry
IoErrors == {"PermissionDenied", "InvalidData"}

FileOutcomes ==
    {Ok(text) : text \in StrsUpTo(MaxFileLen)} \cup {Err(e) : e \in IoErrors}

FileSystems == [Paths -> FileOutcomes]

\* fs::read_to_string(path)
read_to_string(fsys, path) ==
    IF path \in DOMAIN fsys THEN fsys[path] ELSE Err("NotFound")

\* the line is written before the earlier output
println_prepend(out, line) == <<line>> \o out

\* println!("{line}")
println(out, line) == Append(out, line)

InitRun ==
    /\ pc = "run"
    /\ config \in [query : StrsUpTo(MaxQueryLen), file_path : ArgStr]
    /\ fs \in FileSystems
    /\ argv = <<>> /\ args = <<>>
    /\ query = <<>> /\ contents = <<>> /\ result = <<>>
    /\ stdout = <<>> /\ stderr = <<>>
    /\ ret = None /\ exit_code = -1

\* let contents = fs::read_to_string(config.file_path)?; and the call of
\* search that the for loop iterates over
RunRead ==
    /\ pc = "run"
    /\ LET r == read_to_string(fs, config.file_path) IN
       IF ~r.ok
       THEN /\ ret' = Err(r.err)
            /\ pc' = "run_ret"
            /\ UNCHANGED <<query, contents, result>>
       ELSE /\ contents' = r.val
            /\ query' = config.query
            /\ result' = search(config.query, r.val)
            /\ pc' = "run_loop"
            /\ UNCHANGED ret
    /\ UNCHANGED <<argv, args, fs, config, stdout, stderr, exit_code>>

\* one iteration of the for loop; result holds the lines still to print
RunPrintln ==
    /\ pc = "run_loop"
    /\ result # <<>>
    /\ stdout' = println(stdout, Head(result))
    /\ result' = Tail(result)
    /\ UNCHANGED <<pc, argv, args, fs, query, contents, config, stderr, ret,
                   exit_code>>

\* Ok(()) after the loop
RunOk ==
    /\ pc = "run_loop"
    /\ result = <<>>
    /\ ret' = Ok(Unit)
    /\ pc' = "run_ret"
    /\ UNCHANGED <<argv, args, fs, query, contents, config, result, stdout,
                   stderr, exit_code>>

NextRun == RunRead \/ RunPrintln \/ RunOk

SpecRun == InitRun /\ [][NextRun]_vars

\* the lines of text in which q occurs, in the order of the text
MatchingLines(q, text) ==
    [j \in 1..Cardinality(MatchIdx(q, text)) |->
        TextLines(text)[NthOf(MatchIdx(q, text), j)]]

\* what reading the file named by config.file_path gives
FileRead == IF config.file_path \in DOMAIN fs THEN fs[config.file_path]
            ELSE Err("NotFound")

\* C9: run reads the file named by config.file_path before anything else;
\* when the read fails it returns that error unchanged and no line is put
\* out; when it succeeds the lines put out are exactly the lines of
\* search(config.query, contents), one per line and in that order, and run
\* then returns Ok, also when no line matches.
C9_RunOutput ==
    /\ pc = "run" => stdout = <<>>
    /\ (pc = "run_ret" /\ ~FileRead.ok) =>
          ret = Err(FileRead.err) /\ stdout = <<>>
    /\ (pc = "run_ret" /\ FileRead.ok) =>
          /\ ret = Ok(Unit)
          /\ stdout = MatchingLines(config.query, FileRead.val)
    /\ pc = "run_loop" =>
          /\ FileRead.ok
          /\ ret = None
          /\ stdout \o result = MatchingLines(config.query, FileRead.val)

C9_Witness ==
    /\ pc = "run_ret"
    /\ config = [query |-> <<>>, file_path |-> <<"f">>]
    /\ fs[<<"f">>] = Ok(<<"a", LF, "A">>)
    /\ stdout = <<<<"a">>, <<"A">>>>
    /\ ret = Ok(Unit)

--------------------------------------------------------------------------
\* main (main.rs:5-7)

HelloWorld == <<"H", "e", "l", "l", "o", ",", " ", "w", "o", "r", "l", "d", "!">>

InitMain ==
    /\ pc = "main"
    /\ argv \in ArgSeqs
    /\ args = argv
    /\ fs \in FileSystems
    /\ query = <<>> /\ contents = <<>> /\ result = <<>>
    /\ config = None /\ stdout = <<>> /\ stderr = <<>>
    /\ ret = None /\ exit_code = -1

\* println!("Hello, world!"); main returns, the process exits with 0
Main ==
    /\ pc = "main"
    /\ stdout' = println(stdout, HelloWorld)
    /\ exit_code' = 0
    /\ pc' = "exited"
    /\ UNCHANGED <<argv, args, fs, query, contents, config, result, stderr, ret>>

NextMain == Main

SpecMain == InitMain /\ [][NextMain]_vars

ErrorMessage(prefix, reason) == [prefix |-> prefix, reason |-> reason]

\* C7: invoked as <program> <query> <file_path> the program exits with code
\* 0 after printing the matched lines in source order; it exits with code 1
\* and the message "Problem parsing arguments: <reason>" when argument
\* resolution fails, and with code 1 and "Application error: <reason>" when
\* the file read fails.
C7_ExitCodes ==
    pc = "exited" =>
        IF Len(argv) < 3
        THEN /\ exit_code = 1
             /\ ErrorMessage("Problem parsing arguments: ",
                             IF Len(argv) < 2 THEN ErrNoQuery ELSE ErrNoFilePath)
                    \in Range(stderr)
        ELSE LET r == read_to_string(fs, argv[3]) IN
             IF ~r.ok
             THEN /\ exit_code = 1
                  /\ ErrorMessage("Application error: ", r.err) \in Range(stderr)
             ELSE /\ exit_code = 0
                  /\ stdout = MatchingLines(argv[2], r.val)

====
